---- MODULE Spec2Model ----
(***************************************************************************)
(* A model of the Registry of src/core/registry.ts: one Registry instance  *)
(* (its content map, its two cached lists, its validation schema, its      *)
(* sub-registries) together with the UPDATE listeners of its event bus,    *)
(* and the two containers that render what is registered: the              *)
(* MainComponentsContainer of src/core/main_components_container.ts and    *)
(* the DialogContainer of src/core/dialog/dialog_container.ts.             *)
(*                                                                         *)
(* JavaScript values are modelled as follows.  A sequence number is a      *)
(* record [def, n]: def = FALSE is the value undefined, def = TRUE is the  *)
(* number n.  Registry values, keys and fallbacks are strings; the string  *)
(* "undefined" stands for the value undefined and "null" for the value     *)
(* null.  A Map is a sequence of entries in insertion order, which is the  *)
(* order in which a Map is iterated.                                       *)
(***************************************************************************)
EXTENDS Integers, Sequences, FiniteSets, TLC

VARIABLES
    content,           \* this.content: Map key -> [sequence, value]
    elements,          \* this.elements: cached list of values, or null
    entries,           \* this.entries: cached list of <<key, value>>, or null
    validationSchema,  \* this.validationSchema, or null
    subRegistries,     \* this.subRegistries: the children, in creation order
    instances,         \* how many Registry instances category has constructed
    listeners,         \* how many external UPDATE listeners are registered
    stack,             \* the trigger("UPDATE") calls in progress, innermost last:
                       \* of each, how many listeners are still to be invoked
    added,             \* per key: what the entry was added with (priority, value)
    validation,        \* the addValidation call that stored its schema last
    last,              \* the call that was made last, with its outcome
    returned,          \* the list a caller keeps of those getAll/getEntries returned
    Components,        \* MainComponentsContainer: this.Components
    rendered,          \* the entries C the mounted ErrorHandlers were rendered with
    renderRequested,   \* this.render() was called and the render is still to come
    dialogs,           \* DialogContainer: props.dialogs, the dialogs to render
    errors,            \* the errors the children have raised, in order
    deferred           \* the callbacks of Promise.resolve().then still to run

\* The containers.
adapterVars == <<Components, rendered, renderRequested, dialogs, errors, deferred>>

\* What is outside the Registry instance.
aside == <<returned, adapterVars>>

vars == <<content, elements, entries, validationSchema, subRegistries, instances,
          listeners, stack, added, validation, last, returned, adapterVars>>

-----------------------------------------------------------------------------
(* Bounds and input sets *)

\* Deepest nesting of trigger("UPDATE") calls (a listener that mutates the
\* registry triggers UPDATE from inside a dispatch).
MaxDepth == 2

\* Most external listeners registered at a time.
MaxListeners == 2

\* Most errors that the children of the containers raise.
MaxErrors == 2

Keys == {"a", "b"}

\* The keys of the specification of the order of the lists, and all keys.
OrderKeys == {"a", "b", "c", "d"}
AllKeys == Keys \cup OrderKeys
Values == {"A", "B"}
CategoryNames == {"main_components", "dialogs"}

\* The dialogs that the dialog service opens.
Dialogs == {"d1", "d2"}

Null == "null"
Undefined == "undefined"
None == "none"

\* A sequence number: undefined, or a number.
NoSequence == [def |-> FALSE, n |-> 0]
Num(n) == [def |-> TRUE, n |-> n]

DefaultSequence == 50

\* The sequence numbers a caller passes in the options object.
SuppliedSequences == {NoSequence, Num(0), Num(5), Num(10)}

\* The third argument of add: not passed at all, or an object with any of
\* force and sequence (a missing force is falsy, like force: false).
NoOptions == [passed |-> FALSE, force |-> FALSE, sequence |-> NoSequence]
Options == {NoOptions} \cup
           [passed : {TRUE}, force : BOOLEAN, sequence : SuppliedSequences]

\* The second argument of get: not passed (undefined), a falsy fallback, a value.
Fallbacks == {Undefined, Null, "A"}

\* A schema: whether the schema object is truthy, and the values that
\* validate(value, schema) accepts.
NoSchema == [truthy |-> FALSE, accepts |-> {}]

\* The schemas a caller passes to addValidation: a schema object, and a falsy
\* argument (null, undefined), for which validate throws on every value that
\* is an object with a property.
Schemas == {[truthy |-> TRUE, accepts |-> {"A"}], [truthy |-> FALSE, accepts |-> {}]}

\* An array that a call of getAll or of getEntries returns: its elements, and
\* whether it is the cached array itself (shared) or an array of its own.
Array(shared, list) == [shared |-> shared, list |-> list]

\* The list a caller keeps: none, or the array that the call returned.
NothingReturned == [from |-> "none", array |-> Array(FALSE, <<>>)]

\* this.Components before setup has run.
NotMounted == [held |-> FALSE, array |-> Array(FALSE, <<>>)]

\* A cached list: not computed (null), or the computed list.
NullList == [computed |-> FALSE, list |-> <<>>]
List(l) == [computed |-> TRUE, list |-> l]

\* What an UPDATE payload carries as its value: a plain registry value (or
\* undefined), or the array [sequence, value] that the content map stores.
Plain(v) == [array |-> FALSE, sequence |-> NoSequence, value |-> v]
Elem(s, v) == [array |-> TRUE, sequence |-> s, value |-> v]

\* The options of the specification of the order of the lists, which give
\* add each priority that it can store: "a" and "b" are added with sequence
\* 0 or with no options (50), "c" with force alone (undefined, and it
\* overwrites), "d" with no options (50).
OrderOptions(key) ==
    IF key \in {"a", "b"}
    THEN {NoOptions, [passed |-> TRUE, force |-> FALSE, sequence |-> Num(0)]}
    ELSE IF key = "c"
         THEN {[passed |-> TRUE, force |-> TRUE, sequence |-> NoSequence]}
         ELSE {NoOptions}

\* The options that decide what add stores: none, force alone, sequence 0
\* alone, both (a sequence other than 0 is stored as no sequence is, see
\* NewSequence).
SomeOptions == {o \in Options : o.sequence \in {NoSequence, Num(0)}}

-----------------------------------------------------------------------------
(* JavaScript helpers *)

\* ToBoolean of a sequence number: undefined and 0 are falsy.
Truthy(s) == s.def /\ s.n # 0

\* a || b on sequence numbers.
Or(a, b) == IF Truthy(a) THEN a ELSE b

\* Map.prototype.has
Has(map, key) == \E i \in 1..Len(map) : map[i].key = key

Index(map, key) == CHOOSE i \in 1..Len(map) : map[i].key = key

\* Map.prototype.get of a key the map has
MapGet(map, key) == map[Index(map, key)]

\* A set that leaves the entry of an existing key as it is.
MapSetKeepsOld(map, key, sequence, value) ==
    IF Has(map, key)
    THEN map
    ELSE Append(map, [key |-> key, sequence |-> sequence, value |-> value])

\* Map.prototype.set: an existing key keeps its place, a new key goes last.
MapSet(map, key, sequence, value) ==
    LET e == [key |-> key, sequence |-> sequence, value |-> value]
    IN  IF Has(map, key)
        THEN [map EXCEPT ![Index(map, key)] = e]
        ELSE Append(map, e)

\* Map.prototype.delete
MapDelete(map, key) ==
    IF Has(map, key)
    THEN LET i == Index(map, key)
         IN  SubSeq(map, 1, i - 1) \o SubSeq(map, i + 1, Len(map))
    ELSE map

MapKeys(map) == {map[i].key : i \in 1..Len(map)}

-----------------------------------------------------------------------------
(* The sort of getAll and getEntries *)

\* The comparator (el1, el2) => el1[1][0] - el2[1][0].  With an undefined
\* sequence the difference is NaN, which Array.prototype.sort reads as +0.
Compare(el1, el2) ==
    IF el1.sequence.def /\ el2.sequence.def
    THEN el1.sequence.n - el2.sequence.n
    ELSE 0

\* Whether the comparator is a consistent comparison function on the entries
\* of the map: subtraction of numbers is, so the only thing that can go wrong
\* is that "compares equal" is not transitive (through an undefined sequence).
ConsistentComparator(map) ==
    \A i, j, k \in 1..Len(map) :
        (Compare(map[i], map[j]) = 0 /\ Compare(map[j], map[k]) = 0)
            => Compare(map[i], map[k]) = 0

\* Insert el into a sorted list behind every element that does not compare
\* greater than it (a stable insertion).
RECURSIVE Insert(_, _)
Insert(sorted, el) ==
    IF sorted = <<>> \/ Compare(sorted[Len(sorted)], el) <= 0
    THEN Append(sorted, el)
    ELSE Append(Insert(SubSeq(sorted, 1, Len(sorted) - 1), el), sorted[Len(sorted)])

RECURSIVE StableSort(_)
StableSort(map) ==
    IF map = <<>> THEN <<>>
    ELSE Insert(StableSort(SubSeq(map, 1, Len(map) - 1)), map[Len(map)])

\* [...this.content].sort(comparator): the stable sort when the comparator is
\* consistent; otherwise the order is implementation-defined, any permutation.
SortOutcomes(map) ==
    IF ConsistentComparator(map)
    THEN {StableSort(map)}
    ELSE {[i \in 1..Len(map) |-> map[p[i]]] : p \in Permutations(1..Len(map))}

\* .map(([str, elem]) => elem[1])
ElementsOf(sorted) == [i \in 1..Len(sorted) |-> sorted[i].value]

\* .map(([str, elem]) => [str, elem[1]])
EntriesOf(sorted) == [i \in 1..Len(sorted) |-> <<sorted[i].key, sorted[i].value>>]

-----------------------------------------------------------------------------
(* The pure parts of the methods *)

\* The destructuring default of add's third parameter.
Destructure(options) ==
    IF options.passed
    THEN [force |-> options.force, sequence |-> options.sequence]
    ELSE [force |-> FALSE, sequence |-> Num(DefaultSequence)]

\* The duplicate check with the test of force inverted.
IsDuplicateForced(map, key, force) == force /\ Has(map, key)

\* if (!force && this.content.has(key)) throw new DuplicatedKeyError
IsDuplicate(map, key, force) == ~force /\ Has(map, key)

\* if (force) { elem = this.content.get(key); previousSequence = elem && elem[0] }
PreviousSequence(map, key, force) ==
    IF force /\ Has(map, key) THEN MapGet(map, key).sequence ELSE NoSequence

\* sequence = sequence ? previousSequence || 50 : sequence
NewSequence(sequence, previousSequence) ==
    IF Truthy(sequence) THEN Or(previousSequence, Num(DefaultSequence)) ELSE sequence

\* A get that reads every falsy fallback as no fallback (!defaultValue).
GetFalsyFallback(map, key, defaultValue) ==
    IF defaultValue \in {Undefined, Null} /\ ~Has(map, key)
    THEN [err |-> "KeyNotFoundError", ret |-> Undefined]
    ELSE [err |-> None,
          ret |-> IF Has(map, key) THEN MapGet(map, key).value ELSE defaultValue]

\* What get(key, defaultValue) throws or returns.
GetOutcome(map, key, defaultValue) ==
    IF defaultValue = Undefined /\ ~Has(map, key)
    THEN [err |-> "KeyNotFoundError", ret |-> Undefined]
    ELSE [err |-> None,
          ret |-> IF Has(map, key) THEN MapGet(map, key).value ELSE defaultValue]

\* const value = this.content.get(key), as remove reads it
Removed(map, key) ==
    IF Has(map, key)
    THEN Elem(MapGet(map, key).sequence, MapGet(map, key).value)
    ELSE Plain(Undefined)

\* A listener that leaves the cached list as it is.
OnUpdateKeeps(list) == list

\* The listener the constructor registers: this.elements = null; this.entries = null
OnUpdate(list) == NullList

\* A return of the cached array itself.
SliceShares(list) == Array(TRUE, list)

\* return this.elements.slice(); return this.entries.slice()
Slice(list) == Array(FALSE, list)

\* array.splice(start, 1) with start the index of an element (from 0), or -1:
\* a negative start counts from the end, so -1 removes the last element.
Splice(list, start) ==
    LET at == IF start < 0 THEN Len(list) + start ELSE start
    IN  IF at < 0 \/ at >= Len(list) THEN list
        ELSE SubSeq(list, 1, at) \o SubSeq(list, at + 2, Len(list))

\* The entries of a list that getEntries returns, as a holder of the list has
\* them: each is an array [key, value], an object that is an element of the
\* cached list of the registry until the registry drops that list (stale).
Objects(list) ==
    [i \in 1..Len(list) |-> [key |-> list[i][1], value |-> list[i][2], stale |-> FALSE]]

EntryObjects == [key : Keys, value : Values, stale : BOOLEAN]

\* The arrays [key, value] of the objects.
Pairs(objects) == [i \in 1..Len(objects) |-> <<objects[i].key, objects[i].value>>]

\* The objects once the registry has dropped the cached list they are of.
Stale(objects) == [i \in 1..Len(objects) |-> [objects[i] EXCEPT !.stale = TRUE]]

\* array.indexOf(C): the index (from 0) of the object C, or -1.
IndexOf(objects, C) ==
    IF \E i \in 1..Len(objects) : objects[i] = C
    THEN (CHOOSE i \in 1..Len(objects) :
            objects[i] = C /\ \A j \in 1..(i - 1) : objects[j] # C) - 1
    ELSE -1

\* The list without its element at the index (from 1).
Without(list, i) == SubSeq(list, 1, i - 1) \o SubSeq(list, i + 1, Len(list))

\* A callback that leaves this.Components as it is.
RecomputedKeeps(components, fresh) == components

\* this.Components = mainComponents.getEntries(), in the callback of useBus
Recomputed(components, fresh) == fresh

\* A handler that schedules nothing.
DeferNever(queue, error) == queue

\* Promise.resolve().then(() => { throw error; }): the callback is queued.
Defer(queue, error) == Append(queue, error)

\* dialog.props.close()
Close(ds, dialog) == ds \ {dialog}

\* An error a child has raised: the container that handled it, and how many
\* times it was thrown again.
Error(from) == [from |-> from, thrown |-> 0]

\* A validateSchema that returns before it validates.
InvalidNever(value, schema) == FALSE

\* validate(value, schema), as validateSchema calls it: TRUE when it throws.
Invalid(value, schema) == value \notin schema.accepts

\* A lookup that never finds the child.
HasCategoryNever(subs, subcategory) == FALSE

\* let category = this.subRegistries.get(subcategory); if (!category)
HasCategory(subs, subcategory) ==
    \E i \in 1..Len(subs) : subs[i].name = subcategory

\* this.subRegistries.get(subcategory) of a child the registry has
Child(subs, subcategory) ==
    subs[CHOOSE i \in 1..Len(subs) : subs[i].name = subcategory]

\* new Registry(): the instance with the given identity, its content empty.
NewRegistry(subcategory, id) == [name |-> subcategory, id |-> id, content |-> <<>>]

-----------------------------------------------------------------------------
(* Dispatch of UPDATE.  A call is made either by the program, when no       *)
(* dispatch is in progress, or by the listener that the innermost dispatch  *)
(* invokes next; a listener makes at most one call and returns.  Dispatch   *)
(* is synchronous: trigger returns when its last listener has returned.     *)
(* The listeners are registered the way useBus registers them (no capture   *)
(* option), so they are invoked in registration order, after the listener   *)
(* of the constructor.  They all behave alike, so the model counts them;    *)
(* none reads the payload, which is recorded with the call that emits it.   *)

\* The stack once the next listener of the innermost dispatch is invoked.
Invoked == IF stack = <<>> THEN <<>> ELSE [stack EXCEPT ![Len(stack)] = @ - 1]

\* Every trigger whose listeners have all returned returns, innermost first.
RECURSIVE Unwind(_)
Unwind(s) ==
    IF s # <<>> /\ s[Len(s)] = 0
    THEN Unwind(SubSeq(s, 1, Len(s) - 1))
    ELSE s

\* The caller's call returns (or throws) without triggering anything.
Returned == Unwind(Invoked)

\* this.trigger("UPDATE", payload): the constructor's listener has run (see
\* OnUpdate), the external listeners are still to be invoked, in order.
Trigger(payload) == Unwind(Append(Invoked, listeners))

\* The record of a call: who made it, with what, and what came of it.
Call(op, key, value, options, had, err, ret, emitted) ==
    [op |-> op, key |-> key, value |-> value, options |-> options,
     had |-> had, err |-> err, ret |-> ret, emitted |-> emitted]

\* No addValidation call has stored a schema.
NeverValidated == [outcome |-> "never", schema |-> NoSchema]

\* The addValidation call that stored the schema, and whether it threw.
Validated(schema, threw) ==
    [outcome |-> IF threw THEN "failed" ELSE "passed", schema |-> schema]

\* What the reference registry holds for a key.
NotAdded == [present |-> FALSE, priority |-> NoSequence, value |-> Undefined]

\* The priority an entry is added with: the one supplied; without one, the
\* one the entry had when it is overwritten with force, else the default.
AddedWith(options, prior, value) ==
    [present |-> TRUE,
     priority |-> IF options.passed /\ options.sequence.def THEN options.sequence
                  ELSE IF options.passed /\ options.force /\ prior.present
                       THEN prior.priority
                       ELSE Num(DefaultSequence),
     value |-> value]

-----------------------------------------------------------------------------
(* The state after construction *)

Init ==
    /\ content = <<>>
    /\ elements = NullList
    /\ entries = NullList
    /\ validationSchema = NoSchema
    /\ subRegistries = <<>>
    /\ instances = 0
    /\ listeners = 0
    /\ stack = <<>>
    /\ added = [k \in AllKeys |-> NotAdded]
    /\ validation = NeverValidated
    /\ last = [op |-> "new", key |-> Undefined, value |-> Undefined,
               options |-> NoOptions, had |-> FALSE, err |-> None, ret |-> Undefined,
               emitted |-> <<>>]
    /\ returned = NothingReturned
    /\ Components = NotMounted
    /\ rendered = <<>>
    /\ renderRequested = FALSE
    /\ dialogs = {}
    /\ errors = <<>>
    /\ deferred = <<>>

-----------------------------------------------------------------------------
(* The methods *)

\* An add that makes the duplicate check after it has stored the entry.
AddThenThrow(key, value, options) ==
    LET o == Destructure(options)
        had == Has(content, key)
        sequence == NewSequence(o.sequence, PreviousSequence(content, key, o.force))
        payload == [operation |-> "add", key |-> key, value |-> Plain(value)]
    IN  IF IsDuplicate(content, key, o.force)
        THEN /\ content' = MapSet(content, key, sequence, value)
             /\ stack' = Returned
             /\ last' = Call("add", key, value, options, had, "DuplicatedKeyError",
                             Undefined, <<>>)
             /\ UNCHANGED <<elements, entries, validationSchema, validation,
                            subRegistries, instances, listeners, added, aside>>
        ELSE /\ Len(stack) < MaxDepth
             /\ content' = MapSet(content, key, sequence, value)
             /\ elements' = OnUpdate(elements)
             /\ entries' = OnUpdate(entries)
             /\ stack' = Trigger(payload)
             /\ added' = [added EXCEPT ![key] = AddedWith(options, added[key], value)]
             /\ last' = Call("add", key, value, options, had, None, Undefined,
                             <<payload>>)
             /\ UNCHANGED <<validationSchema, validation, subRegistries,
                            instances, listeners, aside>>

\* add(key, value, options)
Add(key, value, options) ==
    LET o == Destructure(options)
        had == Has(content, key)
        sequence == NewSequence(o.sequence, PreviousSequence(content, key, o.force))
        payload == [operation |-> "add", key |-> key, value |-> Plain(value)]
    IN  IF IsDuplicate(content, key, o.force)
        THEN /\ stack' = Returned
             /\ last' = Call("add", key, value, options, had, "DuplicatedKeyError",
                             Undefined, <<>>)
             /\ UNCHANGED <<content, elements, entries, validationSchema,
                            validation, subRegistries, instances, listeners,
                            added, aside>>
        ELSE /\ Len(stack) < MaxDepth
             /\ content' = MapSet(content, key, sequence, value)
             /\ elements' = OnUpdate(elements)
             /\ entries' = OnUpdate(entries)
             /\ stack' = Trigger(payload)
             /\ added' = [added EXCEPT ![key] = AddedWith(options, added[key], value)]
             /\ last' = Call("add", key, value, options, had, None, Undefined,
                             <<payload>>)
             /\ UNCHANGED <<validationSchema, validation, subRegistries,
                            instances, listeners, aside>>

\* get(key, defaultValue)
Get(key, defaultValue) ==
    LET r == GetOutcome(content, key, defaultValue)
    IN  /\ stack' = Returned
        /\ last' = Call("get", key, defaultValue, NoOptions, Has(content, key),
                        r.err, r.ret, <<>>)
        /\ UNCHANGED <<content, elements, entries, validationSchema, validation,
                       subRegistries, instances, listeners, added, aside>>

\* contains(key)
Contains(key) ==
    /\ stack' = Returned
    /\ last' = Call("contains", key, Undefined, NoOptions, Has(content, key), None,
                    IF Has(content, key) THEN "true" ELSE "false", <<>>)
    /\ UNCHANGED <<content, elements, entries, validationSchema, validation,
                   subRegistries, instances, listeners, added, aside>>

\* getAll()
GetAll ==
    \E sorted \in SortOutcomes(content) :
        /\ elements' = IF elements.computed THEN elements
                       ELSE List(ElementsOf(sorted))
        /\ stack' = Returned
        /\ last' = Call("getAll", Undefined, Undefined, NoOptions, FALSE, None,
                        Undefined, <<>>)
        /\ UNCHANGED <<content, entries, validationSchema, validation,
                       subRegistries, instances, listeners, added, aside>>

\* getEntries()
GetEntries ==
    \E sorted \in SortOutcomes(content) :
        /\ entries' = IF entries.computed THEN entries
                      ELSE List(EntriesOf(sorted))
        /\ stack' = Returned
        /\ last' = Call("getEntries", Undefined, Undefined, NoOptions, FALSE, None,
                        Undefined, <<>>)
        /\ UNCHANGED <<content, elements, validationSchema, validation,
                       subRegistries, instances, listeners, added, aside>>

\* remove(key)
Remove(key) ==
    LET payload == [operation |-> "delete", key |-> key,
                    value |-> Removed(content, key)]
    IN  /\ Len(stack) < MaxDepth
        /\ content' = MapDelete(content, key)
        /\ elements' = OnUpdate(elements)
        /\ entries' = OnUpdate(entries)
        /\ stack' = Trigger(payload)
        /\ added' = [added EXCEPT ![key] = NotAdded]
        /\ last' = Call("remove", key, Undefined, NoOptions, Has(content, key), None,
                        Undefined, <<payload>>)
        /\ UNCHANGED <<validationSchema, validation, subRegistries, instances,
                       listeners, aside>>

\* category(subcategory)
Category(subcategory) ==
    LET had == HasCategory(subRegistries, subcategory)
    IN  /\ subRegistries' = IF had THEN subRegistries
                            ELSE Append(subRegistries,
                                        NewRegistry(subcategory, instances + 1))
        /\ instances' = IF had THEN instances ELSE instances + 1
        /\ stack' = Returned
        /\ last' = Call("category", subcategory, Undefined, NoOptions, had, None,
                        Child(subRegistries', subcategory).id, <<>>)
        /\ UNCHANGED <<content, elements, entries, validationSchema, validation,
                       listeners, added, aside>>

\* add(key, value) on the child that category(subcategory) returned
ChildAdd(subcategory, key, value) ==
    /\ HasCategory(subRegistries, subcategory)
    /\ LET child == Child(subRegistries, subcategory)
           i == CHOOSE i \in 1..Len(subRegistries) : subRegistries[i] = child
           o == Destructure(NoOptions)
           had == Has(child.content, key)
           sequence == NewSequence(o.sequence,
                                   PreviousSequence(child.content, key, o.force))
       IN  /\ subRegistries' =
                IF IsDuplicate(child.content, key, o.force)
                THEN subRegistries
                ELSE [subRegistries EXCEPT
                        ![i].content = MapSet(child.content, key, sequence, value)]
           /\ last' = Call("child.add", key, value, NoOptions, had,
                           IF IsDuplicate(child.content, key, o.force)
                           THEN "DuplicatedKeyError" ELSE None,
                           Undefined, <<>>)
    /\ stack' = Returned
    /\ UNCHANGED <<content, elements, entries, validationSchema, validation,
                   instances, listeners, added, aside>>

\* addValidation(schema)
AddValidation(schema) ==
    IF validationSchema.truthy
    THEN /\ stack' = Returned
         /\ last' = Call("addValidation", Undefined, Undefined, NoOptions, TRUE,
                         "SchemaAlreadySet", Undefined, <<>>)
         /\ UNCHANGED <<content, elements, entries, validationSchema,
                        validation, subRegistries, instances, listeners, added,
                        aside>>
    ELSE \E sorted \in SortOutcomes(content) :
            LET list == IF entries.computed THEN entries.list ELSE EntriesOf(sorted)
                bad == {i \in 1..Len(list) : Invalid(list[i][2], schema)}
                first == CHOOSE i \in bad : \A j \in bad : i <= j
            IN  /\ validationSchema' = schema
                /\ validation' = Validated(schema, bad # {})
                /\ entries' = List(list)
                /\ stack' = Returned
                /\ last' = IF bad = {}
                           THEN Call("addValidation", Undefined, Undefined, NoOptions,
                                     FALSE, None, Undefined, <<>>)
                           ELSE Call("addValidation", list[first][1], list[first][2],
                                     NoOptions, FALSE, "ValidationError", Undefined,
                                     <<>>)
                /\ UNCHANGED <<content, elements, subRegistries, instances,
                               listeners, added, aside>>

-----------------------------------------------------------------------------
(* A caller that keeps the list that getAll or getEntries returns, and      *)
(* changes it.                                                              *)

\* const list = registry.getAll()
KeepAll ==
    \E sorted \in SortOutcomes(content) :
        /\ stack = <<>>
        /\ elements' = IF elements.computed THEN elements
                       ELSE List(ElementsOf(sorted))
        /\ returned' = [from |-> "getAll", array |-> Slice(elements'.list)]
        /\ last' = Call("getAll", Undefined, Undefined, NoOptions, FALSE, None,
                        Undefined, <<>>)
        /\ UNCHANGED <<content, entries, validationSchema, validation,
                       subRegistries, instances, listeners, stack, added,
                       adapterVars>>

\* const list = registry.getEntries()
KeepEntries ==
    \E sorted \in SortOutcomes(content) :
        /\ stack = <<>>
        /\ entries' = IF entries.computed THEN entries
                      ELSE List(EntriesOf(sorted))
        /\ returned' = [from |-> "getEntries", array |-> Slice(entries'.list)]
        /\ last' = Call("getEntries", Undefined, Undefined, NoOptions, FALSE, None,
                        Undefined, <<>>)
        /\ UNCHANGED <<content, elements, validationSchema, validation,
                       subRegistries, instances, listeners, stack, added,
                       adapterVars>>

\* list.splice(start, 1) on the list the caller keeps.  When the list is the
\* cached array of the registry, it is that array which loses the element.
SpliceKept(start) ==
    LET list == Splice(returned.array.list, start)
        cached == IF returned.from = "getAll" THEN elements ELSE entries
        after == IF returned.array.shared /\ cached.computed
                 THEN List(list) ELSE cached
    IN  /\ stack = <<>>
        /\ returned.from # "none"
        /\ returned.array.list # <<>>
        /\ returned' = [returned EXCEPT !.array.list = list]
        /\ elements' = IF returned.from = "getAll" THEN after ELSE elements
        /\ entries' = IF returned.from = "getEntries" THEN after ELSE entries
        /\ last' = Call("splice", Undefined, Undefined, NoOptions, FALSE, None,
                        Undefined, <<>>)
        /\ UNCHANGED <<content, validationSchema, validation, subRegistries,
                       instances, listeners, stack, added, adapterVars>>

-----------------------------------------------------------------------------
(* MainComponentsContainer.  The registry of the model is the one that      *)
(* registry.category("main_components") returns; the container is its only  *)
(* listener.  The template renders one ErrorHandler for each entry C of     *)
(* this.Components, whose onError calls handleComponentError(error, C) with *)
(* the C it was rendered with; a render that this.render() requests comes   *)
(* later, and until then the children of the last render stay mounted.      *)

\* setup()
Setup ==
    \E sorted \in SortOutcomes(content) :
        /\ stack = <<>>
        /\ ~Components.held
        /\ listeners < MaxListeners
        /\ entries' = IF entries.computed THEN entries
                      ELSE List(EntriesOf(sorted))
        /\ Components' = [held |-> TRUE, array |-> Slice(Objects(entries'.list))]
        /\ listeners' = listeners + 1
        /\ renderRequested' = TRUE
        /\ last' = Call("setup", Undefined, Undefined, NoOptions, FALSE, None,
                        Undefined, <<>>)
        /\ UNCHANGED <<content, elements, validationSchema, validation,
                       subRegistries, instances, stack, added, returned, rendered,
                       dialogs, errors, deferred>>

\* The callback of useBus, invoked by the dispatch of an UPDATE: the registry
\* has dropped its cached lists before (see OnUpdate), so every entry object
\* handed out earlier is stale from here on.
Updated ==
    \E sorted \in SortOutcomes(content) :
        /\ stack # <<>>
        /\ Components.held
        /\ entries' = IF entries.computed THEN entries
                      ELSE List(EntriesOf(sorted))
        /\ Components' = Recomputed(Components,
                [held |-> TRUE, array |-> Slice(Objects(entries'.list))])
        /\ rendered' = Stale(rendered)
        /\ renderRequested' = TRUE
        /\ stack' = Returned
        /\ last' = Call("UPDATE", Undefined, Undefined, NoOptions, FALSE, None,
                        Undefined, <<>>)
        /\ UNCHANGED <<content, elements, validationSchema, validation,
                       subRegistries, instances, listeners, added, returned,
                       dialogs, errors, deferred>>

\* The render that this.render() requested: the template is rendered with
\* this.Components.
Render ==
    /\ stack = <<>>
    /\ renderRequested
    /\ rendered' = Components.array.list
    /\ renderRequested' = FALSE
    /\ last' = Call("render", Undefined, Undefined, NoOptions, FALSE, None,
                    Undefined, <<>>)
    /\ UNCHANGED <<content, elements, entries, validationSchema, validation,
                   subRegistries, instances, listeners, stack, added, returned,
                   Components, dialogs, errors, deferred>>

\* The entries C that the mounted children were rendered with.
Mounted == {rendered[i] : i \in 1..Len(rendered)}

\* handleComponentError(error, C), for a child that is mounted; the child
\* that raised the error is not rendered any more.
HandleComponentError(C) ==
    LET start == IndexOf(Components.array.list, C)
        list == Splice(Components.array.list, start)
        c == CHOOSE i \in 1..Len(rendered) : rendered[i] = C
    IN  /\ stack = <<>>
        /\ Components.held
        /\ C \in Mounted
        /\ Len(errors) < MaxErrors
        /\ Components' = [Components EXCEPT !.array.list = list]
        /\ entries' = IF Components.array.shared /\ entries.computed
                      THEN List(Pairs(list)) ELSE entries
        /\ renderRequested' = TRUE
        /\ rendered' = Without(rendered, c)
        /\ errors' = Append(errors, Error("main_components"))
        /\ deferred' = Defer(deferred, Len(errors) + 1)
        /\ last' = Call("handleComponentError", C.key, C.value, NoOptions,
                        start >= 0, None, Undefined, <<>>)
        /\ UNCHANGED <<content, elements, validationSchema, validation,
                       subRegistries, instances, listeners, stack, added, returned,
                       dialogs>>

-----------------------------------------------------------------------------
(* DialogContainer.  The template renders one ErrorHandler for each dialog  *)
(* of props.dialogs, whose onError calls handleError(error, dialog).        *)

\* The dialog service adds a dialog to props.dialogs.
OpenDialog(dialog) ==
    /\ stack = <<>>
    /\ dialog \notin dialogs
    /\ dialogs' = dialogs \cup {dialog}
    /\ last' = Call("open", dialog, Undefined, NoOptions, FALSE, None, Undefined,
                    <<>>)
    /\ UNCHANGED <<content, elements, entries, validationSchema, validation,
                   subRegistries, instances, listeners, stack, added, returned,
                   Components, rendered, renderRequested, errors, deferred>>

\* handleError(error, dialog), for a dialog that is rendered
HandleError(dialog) ==
    /\ stack = <<>>
    /\ dialog \in dialogs
    /\ Len(errors) < MaxErrors
    /\ dialogs' = Close(dialogs, dialog)
    /\ errors' = Append(errors, Error("dialog"))
    /\ deferred' = Defer(deferred, Len(errors) + 1)
    /\ last' = Call("handleError", dialog, Undefined, NoOptions, TRUE, None,
                    Undefined, <<>>)
    /\ UNCHANGED <<content, elements, entries, validationSchema, validation,
                   subRegistries, instances, listeners, stack, added, returned,
                   Components, rendered, renderRequested>>

\* () => { throw error; }: the callback that was queued first runs, after the
\* job that queued it has ended.
Rethrow ==
    /\ stack = <<>>
    /\ deferred # <<>>
    /\ errors' = [errors EXCEPT ![Head(deferred)].thrown = @ + 1]
    /\ deferred' = Tail(deferred)
    /\ last' = Call("throw", Undefined, Undefined, NoOptions, FALSE, None,
                    Undefined, <<>>)
    /\ UNCHANGED <<content, elements, entries, validationSchema, validation,
                   subRegistries, instances, listeners, stack, added, returned,
                   Components, rendered, renderRequested, dialogs>>

-----------------------------------------------------------------------------
(* The listeners *)

\* addEventListener("UPDATE", listener), by the program.
Subscribe ==
    /\ stack = <<>>
    /\ listeners < MaxListeners
    /\ listeners' = listeners + 1
    /\ last' = Call("addEventListener", Undefined, Undefined, NoOptions, FALSE, None,
                    Undefined, <<>>)
    /\ UNCHANGED <<content, elements, entries, validationSchema, validation,
                   subRegistries, instances, stack, added, aside>>

\* removeEventListener("UPDATE", listener), by the program.
Unsubscribe ==
    /\ stack = <<>>
    /\ listeners > 0
    /\ listeners' = listeners - 1
    /\ last' = Call("removeEventListener", Undefined, Undefined, NoOptions, FALSE,
                    None, Undefined, <<>>)
    /\ UNCHANGED <<content, elements, entries, validationSchema, validation,
                   subRegistries, instances, stack, added, aside>>

\* A listener that is invoked and calls nothing.
Notified ==
    /\ stack # <<>>
    /\ stack' = Returned
    /\ last' = Call("none", Undefined, Undefined, NoOptions, FALSE, None, Undefined,
                    <<>>)
    /\ UNCHANGED <<content, elements, entries, validationSchema, validation,
                   subRegistries, instances, listeners, added, aside>>

-----------------------------------------------------------------------------
(* Specifications *)

\* The registry and its listeners: every call that reads or changes the
\* content, made by the program or by a listener during a dispatch.
Next ==
    \/ \E key \in Keys, value \in Values, options \in SomeOptions :
            Add(key, value, options)
    \/ \E key \in Keys : Remove(key)
    \/ \E key \in Keys, defaultValue \in Fallbacks :
            Get(key, defaultValue)
    \/ \E key \in Keys : Contains(key)
    \/ GetAll
    \/ GetEntries
    \/ Subscribe
    \/ Unsubscribe
    \/ Notified

Spec == Init /\ [][Next]_vars

\* The registry without listeners, with every form of add's options.
NextPriority ==
    \/ \E key \in Keys, value \in Values, options \in Options :
            Add(key, value, options)
    \/ \E key \in Keys : Remove(key)
    \/ GetAll
    \/ GetEntries

SpecPriority == Init /\ [][NextPriority]_vars

\* The registry without listeners, with its schema and its sub-registries.
NextSchema ==
    \/ \E key \in Keys, value \in Values, options \in SomeOptions :
            Add(key, value, options)
    \/ \E key \in Keys : Remove(key)
    \/ GetEntries
    \/ \E subcategory \in CategoryNames : Category(subcategory)
    \/ \E schema \in Schemas : AddValidation(schema)

SpecSchema == Init /\ [][NextSchema]_vars

\* The registry and its children: the calls that can fail, the children that
\* category creates and what is added to them, and one listener.
NextCategory ==
    \/ \E key \in Keys, value \in Values : Add(key, value, NoOptions)
    \/ \E key \in Keys : Remove(key)
    \/ \E key \in Keys, defaultValue \in {Undefined, "A"} :
            Get(key, defaultValue)
    \/ GetEntries
    \/ \E subcategory \in CategoryNames : Category(subcategory)
    \/ \E subcategory \in CategoryNames : ChildAdd(subcategory, "a", "A")
    \/ Subscribe
    \/ Notified

SpecCategory == Init /\ [][NextCategory]_vars

\* The registry and a caller that keeps and changes the lists it is given.
NextCopy ==
    \/ \E key \in Keys, value \in Values : Add(key, value, NoOptions)
    \/ \E key \in Keys : Remove(key)
    \/ KeepAll
    \/ KeepEntries
    \/ \E start \in {-1, 0, 1} : SpliceKept(start)

SpecCopy == Init /\ [][NextCopy]_vars

\* The order of the lists: four keys, one value, and the three priorities
\* that add can store (see OrderOptions).
NextOrder ==
    \/ \E key \in OrderKeys : \E options \in OrderOptions(key) : Add(key, "A", options)
    \/ \E key \in OrderKeys : Remove(key)
    \/ GetEntries

SpecOrder == Init /\ [][NextOrder]_vars

\* The two containers: the registry of the main components with the
\* container as its listener, the children that raise errors, the dialogs.
NextAdapter ==
    \/ \E key \in Keys : Add(key, "A", NoOptions)
    \/ \E key \in Keys : Remove(key)
    \/ Setup
    \/ Updated
    \/ Render
    \/ \E C \in EntryObjects : HandleComponentError(C)
    \/ \E dialog \in Dialogs : OpenDialog(dialog)
    \/ \E dialog \in Dialogs : HandleError(dialog)
    \/ Rethrow

SpecAdapter == Init /\ [][NextAdapter]_vars

-----------------------------------------------------------------------------
(* Properties *)

\* The keys the reference registry holds.
Present == {k \in AllKeys : added[k].present}

\* The arrangements of the present keys in ascending order of the priority
\* each was added with.
PriorityOrders ==
    {o \in [1..Cardinality(Present) -> Present] :
        /\ \A i, j \in DOMAIN o : i # j => o[i] # o[j]
        /\ \A i, j \in DOMAIN o :
                i < j => added[o[i]].priority.n <= added[o[j]].priority.n}

\* C1: what getAll() and getEntries() return is sorted ascending by the
\* priority each entry was added with, whatever the order of insertion: the
\* list getEntries() has just returned is the (key, value) pairs of the
\* entries in an ascending order of those priorities, and the list getAll()
\* has just returned is their values in such an order.
C1_SortedByAddedPriority ==
    /\ last.op = "getEntries" =>
            \E o \in PriorityOrders :
                entries.list = [i \in DOMAIN o |-> <<o[i], added[o[i]].value>>]
    /\ last.op = "getAll" =>
            \E o \in PriorityOrders :
                elements.list = [i \in DOMAIN o |-> added[o[i]].value]

\* Whether the options of a call of add supply a priority.
Supplies(options) == options.passed /\ options.sequence.def

\* C2: the priority a successful add stores is the supplied one whenever one
\* is supplied (with or without force, for a new or an existing key), and 50
\* whenever none is supplied and the key had no entry (also when the options
\* object sets only force).
C2_StoredPriority ==
    (last.op = "add" /\ last.err = None) =>
        /\ Supplies(last.options) =>
                MapGet(content, last.key).sequence = last.options.sequence
        /\ (~Supplies(last.options) /\ ~last.had) =>
                MapGet(content, last.key).sequence = Num(DefaultSequence)

\* C3: add(key, value, {force: true}) without a priority, on a key that
\* exists, succeeds, replaces the value and leaves the priority of the entry
\* as it was before the call.
C3_ForcePreservesPriority ==
    [][(/\ last'.op = "add"
        /\ last'.options.passed /\ last'.options.force
        /\ ~last'.options.sequence.def
        /\ Has(content, last'.key))
       => /\ last'.err = None
          /\ Has(content', last'.key)
          /\ MapGet(content', last'.key).value = last'.value
          /\ MapGet(content', last'.key).sequence
                = MapGet(content, last'.key).sequence]_vars

\* C4: get(key) returns the value passed to the most recent successful add of
\* the key, as long as the key was not removed since: in every state a get of
\* such a key would return that value, and the get that was just made did.
C4_GetReturnsLastAdded ==
    /\ \A k \in Present :
            GetOutcome(content, k, Undefined) = [err |-> None, ret |-> added[k].value]
    /\ (last.op = "get" /\ last.key \in Present) =>
            (last.err = None /\ last.ret = added[last.key].value)

\* C4 witness: a get of a key that was added has returned.
C4_Witness ==
    /\ last.op = "get" /\ last.key \in Present
    /\ last.ret = "B" /\ Len(content) = 2

\* C5: the cache is never observably stale.  Wherever a caller can read
\* (between calls of the program, and when a listener is invoked, also one of
\* a dispatch nested in another), a computed cache is the sorted list of the
\* current content, one entry per key and none of a removed key, so getAll()
\* and getEntries() return the current content; and when a dispatch has not
\* invoked any external listener yet, both caches are invalidated.
C5_CacheNeverStale ==
    /\ elements.computed =>
            elements.list \in {ElementsOf(sorted) : sorted \in SortOutcomes(content)}
    /\ entries.computed =>
            /\ entries.list \in {EntriesOf(sorted) : sorted \in SortOutcomes(content)}
            /\ {entries.list[i][1] : i \in 1..Len(entries.list)} = MapKeys(content)
            /\ Len(entries.list) = Cardinality(MapKeys(content))
    /\ (stack # <<>> /\ stack[Len(stack)] = listeners) =>
            (~elements.computed /\ ~entries.computed)

\* C5 witness: a listener of a dispatch nested in another (so a listener has
\* changed the registry) has read the entries, with a second listener of
\* that dispatch still to be invoked.
C5_Witness ==
    /\ Len(stack) = 2
    /\ stack[2] = 1 /\ listeners = 2
    /\ last.op = "getEntries"
    /\ entries.computed /\ Len(entries.list) = 2

\* C6: remove(key) of a key the registry does not have is a no-op: the
\* content is unchanged and no UPDATE is emitted; only remove of a key it has
\* deletes the entry and emits UPDATE carrying the removed value.
C6_RemoveAbsentIsNoOp ==
    [][last'.op = "remove" =>
        IF Has(content, last'.key)
        THEN /\ content' = MapDelete(content, last'.key)
             /\ Len(last'.emitted) = 1
             /\ last'.emitted[1].operation = "delete"
             /\ last'.emitted[1].key = last'.key
             /\ last'.emitted[1].value.value = MapGet(content, last'.key).value
        ELSE /\ content' = content
             /\ last'.emitted = <<>>]_vars

\* Whether every entry satisfies the schema.
AllValid(map, schema) == \A i \in 1..Len(map) : ~Invalid(map[i].value, schema)

\* C7: once a schema is attached, every entry added afterwards is validated
\* against it: an add of a value that violates the schema fails with a
\* validation error, and so the entries, once they all satisfy the attached
\* schema (as after a successful addValidation), satisfy it ever after.
C7_AddValidates ==
    [][validationSchema.truthy =>
        /\ (last'.op = "add" /\ Invalid(last'.value, validationSchema))
                => last'.err = "ValidationError"
        /\ AllValid(content, validationSchema)
                => AllValid(content', validationSchema)]_vars

\* C8: add without force of a key the registry has raises DuplicateKey,
\* whatever value and priority are supplied.
C8_DuplicateKey ==
    (last.op = "add" /\ last.had /\ ~last.options.force)
        => last.err = "DuplicatedKeyError"

\* C8 witness: an add without force, with a priority, of a key the registry
\* has.
C8_Witness ==
    /\ last.op = "add" /\ last.had /\ ~last.options.force
    /\ last.options.sequence = Num(10)
    /\ last.value # MapGet(content, last.key).value

\* C9: get(key, fallback) raises KeyNotFound exactly when the key is absent
\* and no fallback is given; with an absent key and a fallback, also a falsy
\* one, it returns the fallback; with a key the registry has it returns the
\* stored value whatever the fallback.  (last.value is the fallback.)
C9_GetFallback ==
    last.op = "get" =>
        /\ last.err = "KeyNotFoundError" <=> (~last.had /\ last.value = Undefined)
        /\ (~last.had /\ last.value # Undefined) =>
                (last.err = None /\ last.ret = last.value)
        /\ last.had =>
                (last.err = None /\ last.ret = MapGet(content, last.key).value)

\* C9 witness: a get of an absent key with a falsy fallback has returned it.
C9_Witness ==
    /\ last.op = "get" /\ ~last.had
    /\ last.value = Null /\ last.ret = Null /\ last.err = None

\* C10: every mutation emits exactly one UPDATE, delivered to all current
\* listeners before the mutating call returns: a successful add emits
\* {operation: "add", key, value} with what was added, a remove of a key the
\* registry has emits {operation: "delete", key, value} with the key and the
\* value it had, and get, contains, getAll, getEntries, category and
\* addValidation emit nothing.  A dispatch starts with every registered
\* listener to be invoked and ends only when the last one has been.
C10_OneUpdatePerMutation ==
    [][/\ (last'.op = "add" /\ last'.err = None) =>
            last'.emitted = <<[operation |-> "add", key |-> last'.key,
                               value |-> Plain(last'.value)]>>
       /\ (last'.op = "remove" /\ Has(content, last'.key)) =>
            last'.emitted = <<[operation |-> "delete", key |-> last'.key,
                               value |-> Plain(MapGet(content, last'.key).value)]>>
       /\ last'.op \in {"get", "contains", "getAll", "getEntries", "category",
                        "addValidation"} => last'.emitted = <<>>
       /\ (last'.emitted # <<>> /\ listeners > 0) =>
            (Len(stack') = Len(stack) + 1 /\ stack'[Len(stack')] = listeners)
       /\ \A i \in 1..Len(stack) :
            Len(stack') < i => stack[i] = (IF i = Len(stack) THEN 1 ELSE 0)]_vars

\* C11: a call of addValidation on a registry on which a call of
\* addValidation has stored its schema raises SchemaAlreadySet, whatever
\* schema the first call passed and whatever was called in between, and
\* leaves the stored schema as it is.
C11_SecondAddValidationRaises ==
    [][(last'.op = "addValidation" /\ validation.outcome # "never")
       => /\ last'.err = "SchemaAlreadySet"
          /\ validationSchema' = validationSchema]_vars

\* C12: category(name) returns the same child for the same name every time:
\* a call for a name that has a child returns that child and changes
\* nothing, a call for a name that has none creates a new instance with no
\* content, and no call of any method removes a child, replaces it by
\* another instance or creates one.
C12_SameChildEveryTime ==
    [][/\ \A i \in 1..Len(subRegistries) :
            /\ i <= Len(subRegistries')
            /\ subRegistries'[i].name = subRegistries[i].name
            /\ subRegistries'[i].id = subRegistries[i].id
       /\ last'.op # "category" => Len(subRegistries') = Len(subRegistries)
       /\ last'.op = "category" =>
            IF \E i \in 1..Len(subRegistries) : subRegistries[i].name = last'.key
            THEN /\ subRegistries' = subRegistries
                 /\ \E i \in 1..Len(subRegistries) :
                        /\ subRegistries[i].name = last'.key
                        /\ subRegistries[i].id = last'.ret
            ELSE /\ Len(subRegistries') = Len(subRegistries) + 1
                 /\ subRegistries'[Len(subRegistries')].name = last'.key
                 /\ subRegistries'[Len(subRegistries')].id = last'.ret
                 /\ subRegistries'[Len(subRegistries')].content = <<>>
                 /\ \A i \in 1..Len(subRegistries) :
                        subRegistries[i].id # last'.ret]_vars

\* C12 witness: category has returned, for the second time, the second child
\* the registry created, which has an entry by now.
C12_Witness ==
    /\ last.op = "category" /\ last.had
    /\ Len(subRegistries) = 2
    /\ last.ret = 2
    /\ subRegistries[2].name = last.key
    /\ subRegistries[2].content # <<>>

\* C17: addValidation(schema) on a registry that has no schema validates
\* every entry there is: it fails with a validation error that names the key
\* of an entry that violates the schema exactly when some entry violates it,
\* succeeds when all entries satisfy it, and adds, removes and changes no
\* entry.
C17_ValidatesEveryEntry ==
    [][(last'.op = "addValidation" /\ ~validationSchema.truthy)
       => /\ content' = content
          /\ added' = added
          /\ last'.err \in {None, "ValidationError"}
          /\ last'.err = None <=>
                \A i \in 1..Len(content) :
                    content[i].value \in validation'.schema.accepts
          /\ last'.err = "ValidationError" =>
                /\ Has(content, last'.key)
                /\ MapGet(content, last'.key).value = last'.value
                /\ last'.value \notin validation'.schema.accepts]_vars

\* C17 witness: addValidation has failed on a registry of two entries, of
\* which the second violates the schema.
C17_Witness ==
    /\ last.op = "addValidation" /\ last.err = "ValidationError"
    /\ validationSchema.truthy
    /\ Len(content) = 2
    /\ content[1].value \in validationSchema.accepts
    /\ last.key = content[2].key

\* C19: a call that fails leaves the registry as it was: after add has
\* raised DuplicateKey or get has raised KeyNotFound, the content (keys,
\* values, priorities), both cached lists, the schema and the children are
\* what they were before the call, and no UPDATE was emitted: no dispatch
\* has started and no listener is invoked for it.
C19_FailureChangesNothing ==
    [][(/\ last'.op \in {"add", "get"}
        /\ last'.err \in {"DuplicatedKeyError", "KeyNotFoundError"})
       => /\ content' = content
          /\ elements' = elements
          /\ entries' = entries
          /\ validationSchema' = validationSchema
          /\ subRegistries' = subRegistries
          /\ last'.emitted = <<>>
          /\ stack' = Returned]_vars

\* C19 witness: an add has raised DuplicateKey on a registry that has a
\* computed cache, a child with an entry and a listener.
C19_Witness ==
    /\ last.op = "add" /\ last.err = "DuplicatedKeyError"
    /\ entries.computed /\ Len(entries.list) = 2
    /\ listeners > 0
    /\ subRegistries # <<>> /\ subRegistries[1].content # <<>>

\* C20: addValidation has no rollback: once a call of addValidation has
\* failed with a validation error, the schema it passed is the schema of
\* the registry, and every later call of addValidation raises
\* SchemaAlreadySet (also when the entry that violated it is removed).
C20_NoRollback ==
    [][validation.outcome = "failed"
       => /\ validationSchema = validation.schema
          /\ last'.op = "addValidation" => last'.err = "SchemaAlreadySet"]_vars

\* C13: getAll() and getEntries() return a copy: a caller that removes an
\* element from the list it was given changes neither the content nor the
\* cached lists of the registry, and what a call returns, also after such a
\* removal, is the sorted list of the current content.
C13_ReturnsFreshCopy ==
    [][/\ last'.op = "splice" =>
            /\ content' = content
            /\ elements' = elements
            /\ entries' = entries
       /\ last'.op = "getAll" =>
            returned'.array.list \in
                {ElementsOf(sorted) : sorted \in SortOutcomes(content')}
       /\ last'.op = "getEntries" =>
            returned'.array.list \in
                {EntriesOf(sorted) : sorted \in SortOutcomes(content')}]_vars

\* C13 witness: the caller has removed an element from the list getAll
\* returned, and the registry still has both entries and its cached list.
C13_Witness ==
    /\ last.op = "splice"
    /\ returned.from = "getAll" /\ Len(returned.array.list) = 1
    /\ elements.computed /\ Len(elements.list) = 2
    /\ Len(content) = 2

\* Whether two entries have the same priority, a number.
SamePriority(e1, e2) ==
    e1.sequence.def /\ e2.sequence.def /\ e1.sequence.n = e2.sequence.n

\* C18: entries of equal priority are listed in the order in which their
\* keys were inserted: in what getEntries() returns, of two entries of the
\* same priority the one whose key the content map has first comes first; an
\* add that overwrites a key leaves the keys of the content map in their
\* order, and an add of a key the registry does not have (as after remove)
\* puts it last.
C18_StableAmongEqualPriority ==
    [][/\ last'.op = "getEntries" =>
            \A i, j \in 1..Len(entries'.list) :
                (/\ i < j
                 /\ SamePriority(MapGet(content', entries'.list[i][1]),
                                 MapGet(content', entries'.list[j][1])))
                => Index(content', entries'.list[i][1])
                        < Index(content', entries'.list[j][1])
       /\ (last'.op = "add" /\ last'.err = None) =>
            IF Has(content, last'.key)
            THEN [i \in 1..Len(content') |-> content'[i].key]
                    = [i \in 1..Len(content) |-> content[i].key]
            ELSE /\ content'[Len(content')].key = last'.key
                 /\ SubSeq(content', 1, Len(content') - 1) = content]_vars

\* C14: when a child of the MainComponentsContainer raises an error, the
\* container removes the entry of that child from this.Components and no
\* other, however the errors and the UPDATE events interleave (also when the
\* child was rendered from a list that an UPDATE has replaced since): every
\* entry of another key stays, and no entry of the key of the child does.
C14_EvictsOnlyTheFaultyChild ==
    [][last'.op = "handleComponentError" =>
        /\ \A i \in 1..Len(Components.array.list) :
                Components.array.list[i].key # last'.key =>
                    \E j \in 1..Len(Components'.array.list) :
                        Components'.array.list[j] = Components.array.list[i]
        /\ \A j \in 1..Len(Components'.array.list) :
                Components'.array.list[j].key # last'.key]_vars

\* How many times the error is in the queue of deferred callbacks.
Queued(queue, error) == Cardinality({i \in 1..Len(queue) : queue[i] = error})

\* C15: both containers raise every error of a child again, exactly once,
\* after their recovery and never inside the handler.  The handler completes
\* the recovery (handleComponentError has spliced this.Components and
\* requested a render, handleError has closed the dialog), throws nothing
\* and queues one callback for the error; an error is thrown only by the
\* callback, a step of its own that comes after the handler; and every
\* error that was handled is either queued once or was thrown once.
C15_RethrownOnceAfterRecovery ==
    [][/\ Len(errors') >= Len(errors)
       /\ \A e \in 1..Len(errors') :
            errors'[e].thrown + Queued(deferred', e) = 1
       /\ last'.op \in {"handleComponentError", "handleError"} =>
            /\ Len(errors') = Len(errors) + 1
            /\ \A e \in 1..Len(errors) : errors'[e] = errors[e]
            /\ errors'[Len(errors')].thrown = 0
            /\ Queued(deferred', Len(errors')) = 1
       /\ last'.op = "handleComponentError" =>
            /\ errors'[Len(errors')].from = "main_components"
            /\ renderRequested'
            /\ Components'.array.list
                    = Splice(Components.array.list,
                             IF last'.had
                             THEN (CHOOSE i \in 1..Len(Components.array.list) :
                                    Components.array.list[i].key = last'.key) - 1
                             ELSE -1)
       /\ last'.op = "handleError" =>
            /\ errors'[Len(errors')].from = "dialog"
            /\ last'.key \notin dialogs'
       /\ \A e \in 1..Len(errors) :
            errors'[e].thrown # errors[e].thrown =>
                /\ last'.op = "throw"
                /\ errors[e].thrown = 0 /\ errors'[e].thrown = 1
                /\ Queued(deferred, e) = 1]_vars

\* C15 witness: a child of each container has raised an error, and both
\* errors were thrown again.
C15_Witness ==
    /\ Len(errors) = 2
    /\ errors[1] = [from |-> "main_components", thrown |-> 1]
    /\ errors[2] = [from |-> "dialog", thrown |-> 1]
    /\ deferred = <<>>
    /\ last.op = "throw"

\* C16: the MainComponentsContainer recomputes its list on every UPDATE of
\* its registry: when its callback has run, this.Components is what
\* getEntries() of the registry returns then, the sorted entries of the
\* current content (an entry that was evicted is back when it is still
\* registered), and a render is requested.
C16_RecomputedOnUpdate ==
    last.op = "UPDATE" =>
        /\ Components.held
        /\ entries.computed
        /\ Pairs(Components.array.list) = entries.list
        /\ entries.list \in {EntriesOf(sorted) : sorted \in SortOutcomes(content)}
        /\ \A i \in 1..Len(Components.array.list) :
                ~Components.array.list[i].stale
        /\ renderRequested

\* C16 witness: after a child has raised an error and its entry was evicted,
\* an UPDATE has come, and this.Components has every entry of the registry
\* again.
C16_Witness ==
    /\ last.op = "UPDATE"
    /\ Len(errors) = 1 /\ errors[1].from = "main_components"
    /\ Len(content) = 2
    /\ Len(Components.array.list) = 2
    /\ Len(rendered) = 1

====
